---- MODULE Spec2Model ----
(***************************************************************************)
(* Model of bimmer_connected's data-normalisation layer:                   *)
(*   - utils.parse_datetime (multi-format timestamp parser),               *)
(*   - vehicle_status.backend_parameter (accessor wrapper),                *)
(*   - vehicle_status.VehicleStatus and its derived properties.            *)
(*                                                                         *)
(* Python values are tagged records, so that truthiness, subscripting,     *)
(* "in" tests and exceptions are computed the way the interpreter does.    *)
(* Every evaluation yields an outcome: either a returned value or a raised *)
(* exception.                                                              *)
(***************************************************************************)
EXTENDS Integers, Sequences, FiniteSets, TLC

VARIABLES py37, self, vehicle, call, result

vars == <<py37, self, vehicle, call, result>>

----------------------------------------------------------------------------
(* Bounds of the model *)

\* range / mileage values are drawn from 0..MaxRange
MaxRange == 2
\* distinct instants a timestamp string can denote
NumInstants == 2
\* longest timestamp string (in lexical tokens) handed to parse_datetime
MaxTokens == 3
\* longest list of service reports / check control messages
MaxItems == 2
\* most doors (and most windows) a snapshot reports
MaxDoors == 2

\* number of polls (update_state calls) after the vehicle is constructed
MaxPolls == 2

----------------------------------------------------------------------------
(* Python values *)

None == [t |-> "None"]
PyBool(b) == [t |-> "bool", b |-> b]
PyInt(n) == [t |-> "int", n |-> n]
PyFloat(n) == [t |-> "float", f |-> n]
PyStr(s) == [t |-> "str", s |-> s]
\* a timestamp string, as the sequence of its lexical tokens
PyTimeStr(toks) == [t |-> "str", toks |-> toks]
PyTuple(items) == [t |-> "tuple", items |-> items]
PyList(items) == [t |-> "list", items |-> items]
\* a dict built from a sequence of <<key, value>> pairs, in insertion order
PyDict(pairs) ==
    [t |-> "dict",
     keys |-> [i \in 1..Len(pairs) |-> pairs[i][1]],
     d |-> [key \in {pairs[i][1] : i \in 1..Len(pairs)} |->
               pairs[CHOOSE i \in 1..Len(pairs) : pairs[i][1] = key][2]]]
PyDatetime(instant, frac, tz) == [t |-> "datetime", instant |-> instant, frac |-> frac, tz |-> tz]
PyEnum(cls, member) == [t |-> "enum", cls |-> cls, member |-> member]

\* outcomes of evaluating an expression or a call
Return(v) == [k |-> "return", val |-> v]
Raise(e) == [k |-> "raise", exc |-> e]

KeyError == "KeyError"
TypeError == "TypeError"
AttributeError == "AttributeError"
IndexError == "IndexError"
\* ValueError raised by strptime when the string does not match the format
StrptimeError == "ValueError: time data does not match format"
\* ValueError raised by Enum(value) for a value that is no member
EnumError == "ValueError: not a valid enum member"
\* ValueError raised by int() / float() on a non-numeric string
ConversionError == "ValueError: invalid literal"

IsStrTimeStr(v) == v.t = "str" /\ "toks" \in DOMAIN v

\* bool(v)
Truthy(v) ==
    CASE v.t = "None" -> FALSE
      [] v.t = "bool" -> v.b
      [] v.t = "int" -> v.n # 0
      [] v.t = "float" -> v.f # 0
      [] v.t = "str" -> IF IsStrTimeStr(v) THEN v.toks # <<>> ELSE v.s # ""
      [] v.t \in {"tuple", "list"} -> v.items # <<>>
      [] v.t = "dict" -> v.keys # <<>>
      [] OTHER -> TRUE

\* a or b  (both already evaluated; used where b cannot raise)
PyOr(a, b) == IF Truthy(a) THEN a ELSE b

\* obj[key] for a string key
GetItem(obj, key) ==
    IF obj.t = "dict"
    THEN IF key \in DOMAIN obj.d THEN Return(obj.d[key]) ELSE Raise(KeyError)
    ELSE Raise(TypeError)

\* obj[i] for an integer index (0-based, as in Python)
Index(obj, i) ==
    IF obj.t \in {"tuple", "list"}
    THEN IF i + 1 \in 1..Len(obj.items) THEN Return(obj.items[i + 1]) ELSE Raise(IndexError)
    ELSE Raise(TypeError)

\* key in obj
Contains(key, obj) ==
    IF obj.t = "dict" THEN Return(PyBool(key \in DOMAIN obj.d)) ELSE Raise(TypeError)

\* obj.get(key, default)
DictGet(obj, key, default) ==
    IF obj.t = "dict"
    THEN Return(IF key \in DOMAIN obj.d THEN obj.d[key] ELSE default)
    ELSE Raise(AttributeError)

\* obj[k1][k2]...[kn], left to right
RECURSIVE Path(_, _)
Path(obj, keys) ==
    IF keys = <<>> THEN Return(obj)
    ELSE LET r == GetItem(obj, Head(keys)) IN
         IF r.k = "raise" THEN r ELSE Path(r.val, Tail(keys))

\* a + b
PyAdd(a, b) ==
    IF a.t = "int" /\ b.t = "int" THEN Return(PyInt(a.n + b.n)) ELSE Raise(TypeError)

\* int(v)
ToInt(v) ==
    CASE v.t = "int" -> Return(v)
      [] v.t = "float" -> Return(PyInt(v.f))
      [] v.t = "bool" -> Return(PyInt(IF v.b THEN 1 ELSE 0))
      [] v.t = "str" -> Raise(ConversionError)
      [] OTHER -> Raise(TypeError)

\* float(v)
ToFloat(v) ==
    CASE v.t = "int" -> Return(PyFloat(v.n))
      [] v.t = "float" -> Return(v)
      [] v.t = "bool" -> Return(PyFloat(IF v.b THEN 1 ELSE 0))
      [] v.t = "str" -> Raise(ConversionError)
      [] OTHER -> Raise(TypeError)

----------------------------------------------------------------------------
(* utils.parse_datetime *)

\* lexical tokens of a timestamp string
DateTok(i) == "DT" \o ToString(i)
DateToks == {DateTok(i) : i \in 1..NumInstants}
InstantOf(tok) == CHOOSE i \in 1..NumInstants : DateTok(i) = tok
\* FRAC = ".ffffff", OFF = "+hhmm", OFFC = "+hh:mm", Z = "Z", X = anything else
Tokens == DateToks \cup {"FRAC", "OFF", "OFFC", "Z", "X"}

\* the four formats, as sequences of directives: "DT" is %Y-%m-%dT%H:%M:%S
date_formats ==
    << <<"DT", ".%f", "%z">>,
       <<"DT", "%z">>,
       <<"DT", ".%f", "Z">>,
       <<"DT", "Z">> >>

\* does one token satisfy one directive? %z accepts "+hh:mm" and "Z" only
\* from Python 3.7 on
DirectiveMatches(dir, tok, modern) ==
    CASE dir = "DT" -> tok \in DateToks
      [] dir = ".%f" -> tok = "FRAC"
      [] dir = "%z" -> tok = "OFF" \/ (modern /\ tok \in {"OFFC", "Z"})
      [] dir = "Z" -> tok = "Z"
      [] OTHER -> FALSE

\* datetime.datetime.strptime(date_str, date_format)
strptime(date_str, date_format, modern) ==
    IF ~IsStrTimeStr(date_str) THEN Raise(TypeError)
    ELSE LET toks == date_str.toks IN
         IF /\ Len(toks) = Len(date_format)
            /\ \A i \in 1..Len(toks) : DirectiveMatches(date_format[i], toks[i], modern)
         THEN LET last == toks[Len(toks)]
                  tz == IF date_format[Len(date_format)] = "%z"
                        THEN (IF last = "Z" THEN "utc" ELSE "offset")
                        ELSE "naive"
              IN Return(PyDatetime(InstantOf(toks[1]), ".%f" \in {date_format[i] : i \in 1..Len(date_format)}, tz))
         ELSE Raise(StrptimeError)

\* parsed.replace(tzinfo=datetime.timezone.utc)
ReplaceTzUtc(dt) == [dt EXCEPT !.tz = "utc"]

\* the loop trying the formats in the opposite order
RECURSIVE parse_loop_reversed(_, _, _)
parse_loop_reversed(date_str, i, modern) ==
    IF i > Len(date_formats) THEN Return(None)
    ELSE LET r == strptime(date_str, date_formats[Len(date_formats) + 1 - i], modern) IN
         IF r.k = "return"
         THEN Return(IF ~modern THEN ReplaceTzUtc(r.val) ELSE r.val)
         ELSE IF r.exc = StrptimeError
              THEN parse_loop_reversed(date_str, i + 1, modern)
              ELSE r

\* the loop without the implicit-UTC assumption for Python 3.6
RECURSIVE parse_loop_without_replace(_, _, _)
parse_loop_without_replace(date_str, i, modern) ==
    IF i > Len(date_formats) THEN Return(None)
    ELSE LET r == strptime(date_str, date_formats[i], modern) IN
         IF r.k = "return"
         THEN r
         ELSE IF r.exc = StrptimeError
              THEN parse_loop_without_replace(date_str, i + 1, modern)
              ELSE r

\* the body of the for loop, from format number i on
RECURSIVE parse_loop(_, _, _)
parse_loop(date_str, i, modern) ==
    IF i > Len(date_formats) THEN Return(None)
    ELSE LET r == strptime(date_str, date_formats[i], modern) IN
         IF r.k = "return"
         THEN Return(IF ~modern THEN ReplaceTzUtc(r.val) ELSE r.val)
         ELSE IF r.exc = StrptimeError
              THEN parse_loop(date_str, i + 1, modern)
              ELSE r

parse_datetime(date_str, modern) ==
    IF ~Truthy(date_str) THEN Return(None)
    ELSE parse_loop(date_str, 1, modern)

\* a > b on datetimes
DatetimeGreater(a, b) ==
    IF a.t # "datetime" \/ b.t # "datetime" THEN Raise(TypeError)
    ELSE IF (a.tz = "naive") # (b.tz = "naive") THEN Raise(TypeError)
    ELSE Return(PyBool(\/ a.instant > b.instant
                       \/ (a.instant = b.instant /\ a.frac /\ ~b.frac)))

\* max(a, b): b if b > a, else a
PyMax(a, b) ==
    LET c == DatetimeGreater(b, a) IN
    IF c.k = "raise" THEN c ELSE Return(IF c.val.b THEN b ELSE a)

----------------------------------------------------------------------------
(* vehicle_status: enumerations, Lid, Window, report classes *)

LidState == {"CLOSED", "OPEN", "OPEN_TILT", "INTERMEDIATE", "INVALID"}
LockState == {"LOCKED", "SECURED", "SELECTIVE_LOCKED", "UNLOCKED", "UNKNOWN"}
ConditionBasedServiceStatus == {"OK", "OVERDUE", "PENDING"}
ChargingState == {"CHARGING", "ERROR", "COMPLETE", "FINISHED_FULLY_CHARGED",
                  "FINISHED_NOT_FULL", "INVALID", "NOT_CHARGING", "WAITING_FOR_CHARGING"}

EnumMembers(cls) ==
    CASE cls = "LidState" -> LidState
      [] cls = "LockState" -> LockState
      [] cls = "ConditionBasedServiceStatus" -> ConditionBasedServiceStatus
      [] cls = "ChargingState" -> ChargingState

\* cls(value): look a raw code up among the members of the enumeration
EnumCall(cls, value) ==
    IF value.t = "str" /\ ~IsStrTimeStr(value) /\ value.s \in EnumMembers(cls)
    THEN Return(PyEnum(cls, value.s))
    ELSE Raise(EnumError)

\* the lower-case spellings that occur among the raw codes
LowerToUpper ==
    [s \in {"locked", "unlocked", "secured", "bogus"} |->
        CASE s = "locked" -> "LOCKED"
          [] s = "unlocked" -> "UNLOCKED"
          [] s = "secured" -> "SECURED"
          [] s = "bogus" -> "BOGUS"]

\* value.upper()
Upper(value) ==
    IF value.t = "str" /\ ~IsStrTimeStr(value)
    THEN Return(PyStr(IF value.s \in DOMAIN LowerToUpper THEN LowerToUpper[value.s] ELSE value.s))
    ELSE Raise(AttributeError)

\* len(v)
PyLen(v) ==
    CASE v.t \in {"tuple", "list"} -> Return(PyInt(Len(v.items)))
      [] v.t = "dict" -> Return(PyInt(Len(v.keys)))
      [] OTHER -> Raise(TypeError)

\* Lid(name, state) and Window(name, state): cls is "Lid" or "Window"
Lid(cls, name, state) ==
    LET st == EnumCall("LidState", state) IN
    IF st.k = "raise" THEN st
    ELSE Return([t |-> cls, name |-> name, state |-> st.val])

\* is_closed comparing with OPEN instead of CLOSED
is_closed_unless_open(lid) == lid.state # PyEnum("LidState", "OPEN")

\* Lid.is_closed
is_closed(lid) == lid.state = PyEnum("LidState", "CLOSED")

\* the comprehension without its "v != INVALID" condition
RECURSIVE lid_comprehension_unfiltered(_, _, _, _)
lid_comprehension_unfiltered(cls, d, keys, allowed) ==
    IF keys = <<>> THEN Return(<<>>)
    ELSE LET name == Head(keys)
             v == d.d[name]
         IN IF name \in allowed
            THEN LET lid == Lid(cls, name, v) IN
                 IF lid.k = "raise" THEN lid
                 ELSE LET rest == lid_comprehension_unfiltered(cls, d, Tail(keys), allowed) IN
                      IF rest.k = "raise" THEN rest
                      ELSE Return(<<lid.val>> \o rest.val)
            ELSE lid_comprehension_unfiltered(cls, d, Tail(keys), allowed)

\* [cls(k, v) for k, v in d.items() if k in allowed and v != INVALID],
\* over the keys still to visit; the value is a sequence of Lid objects
RECURSIVE lid_comprehension(_, _, _, _)
lid_comprehension(cls, d, keys, allowed) ==
    IF keys = <<>> THEN Return(<<>>)
    ELSE LET name == Head(keys)
             v == d.d[name]
         IN IF name \in allowed /\ v # PyStr("INVALID")
            THEN LET lid == Lid(cls, name, v) IN
                 IF lid.k = "raise" THEN lid
                 ELSE LET rest == lid_comprehension(cls, d, Tail(keys), allowed) IN
                      IF rest.k = "raise" THEN rest
                      ELSE Return(<<lid.val>> \o rest.val)
            ELSE lid_comprehension(cls, d, Tail(keys), allowed)

\* ConditionBasedServiceReport(cbs_data)
ConditionBasedServiceReport(cbs_data, modern) ==
    LET date == DictGet(cbs_data, "dateTime", None) IN
    IF date.k = "raise" THEN date ELSE
    LET due_date == parse_datetime(date.val, modern) IN
    IF due_date.k = "raise" THEN due_date ELSE
    LET status == GetItem(cbs_data, "status") IN
    IF status.k = "raise" THEN status ELSE
    LET state == EnumCall("ConditionBasedServiceStatus", status.val) IN
    IF state.k = "raise" THEN state ELSE
    LET service_type == GetItem(cbs_data, "type") IN
    IF service_type.k = "raise" THEN service_type ELSE
    LET value == Path(cbs_data, <<"distance", "value">>)
        units == Path(cbs_data, <<"distance", "units">>)
        obj(due_distance) == [t |-> "ConditionBasedServiceReport",
                              due_date |-> due_date.val,
                              state |-> state.val,
                              service_type |-> service_type.val,
                              due_distance |-> due_distance,
                              description |-> None]
    IN IF "distance" \notin DOMAIN cbs_data.d THEN Return(obj(None))
       ELSE IF value.k = "raise" THEN value
       ELSE IF units.k = "raise" THEN units
       ELSE Return(obj(PyTuple(<<value.val, units.val>>)))

\* [ConditionBasedServiceReport(s) for s in items]
RECURSIVE cbs_comprehension(_, _)
cbs_comprehension(items, modern) ==
    IF items = <<>> THEN Return(<<>>)
    ELSE LET r == ConditionBasedServiceReport(Head(items), modern) IN
         IF r.k = "raise" THEN r
         ELSE LET rest == cbs_comprehension(Tail(items), modern) IN
              IF rest.k = "raise" THEN rest
              ELSE Return(<<r.val>> \o rest.val)

\* CheckControlMessage(ccm_dict)
CheckControlMessage(ccm_dict) == [t |-> "CheckControlMessage", ccm_dict |-> ccm_dict]

\* the comprehension without its 'm["state"] != "OK"' condition
RECURSIVE ccm_comprehension_unfiltered(_)
ccm_comprehension_unfiltered(messages) ==
    IF messages = <<>> THEN Return(<<>>)
    ELSE LET st == GetItem(Head(messages), "state") IN
         IF st.k = "raise" THEN st
         ELSE LET rest == ccm_comprehension_unfiltered(Tail(messages)) IN
              IF rest.k = "raise" THEN rest
              ELSE Return(<<CheckControlMessage(Head(messages))>> \o rest.val)

\* [CheckControlMessage(m) for m in messages if m["state"] != "OK"]
RECURSIVE ccm_comprehension(_)
ccm_comprehension(messages) ==
    IF messages = <<>> THEN Return(<<>>)
    ELSE LET st == GetItem(Head(messages), "state") IN
         IF st.k = "raise" THEN st
         ELSE LET rest == ccm_comprehension(Tail(messages)) IN
              IF rest.k = "raise" THEN rest
              ELSE IF st.val # PyStr("OK")
                   THEN Return(<<CheckControlMessage(Head(messages))>> \o rest.val)
                   ELSE rest

----------------------------------------------------------------------------
(* vehicle_status.backend_parameter *)

NoDataError == "ValueError: No data available for vehicle status!"

\* the wrapper without its "except KeyError" clause
backend_parameter_no_except(slf, r) ==
    IF slf.properties = None /\ Truthy(slf.status)
    THEN Raise(NoDataError)
    ELSE r

\* the wrapper with "except Exception: return None"
backend_parameter_except_all(slf, r) ==
    IF slf.properties = None /\ Truthy(slf.status)
    THEN Raise(NoDataError)
    ELSE IF r.k = "raise" THEN Return(None) ELSE r

\* _func_wrapper: slf is the VehicleStatus, r the outcome of func(self)
backend_parameter(slf, r) ==
    IF slf.properties = None /\ Truthy(slf.status)
    THEN Raise(NoDataError)
    ELSE IF r.k = "raise" /\ r.exc = KeyError
         THEN Return(None)
         ELSE r

----------------------------------------------------------------------------
(* vehicle_status.VehicleStatus *)

\* VehicleStatus.__init__
VehicleStatus(state) ==
    LET status == GetItem(state, "status") IN
    IF status.k = "raise" THEN status ELSE
    LET properties == GetItem(state, "properties") IN
    IF properties.k = "raise" THEN properties ELSE
    Return([status |-> status.val, properties |-> properties.val])

\* (obj[k1]..[value_key], obj[k1]..[units_key]) as a tuple
value_with_unit(obj, keys, value_key, units_key) ==
    LET value == Path(obj, Append(keys, value_key))
        units == Path(obj, Append(keys, units_key))
    IN IF value.k = "raise" THEN value
       ELSE IF units.k = "raise" THEN units
       ELSE Return(PyTuple(<<value.val, units.val>>))

timestamp(slf, modern) ==
    backend_parameter(slf,
        LET p == GetItem(slf.properties, "lastUpdatedAt") IN
        IF p.k = "raise" THEN p ELSE
        LET pd == parse_datetime(p.val, modern) IN
        IF pd.k = "raise" THEN pd ELSE
        LET s == GetItem(slf.status, "lastUpdatedAt") IN
        IF s.k = "raise" THEN s ELSE
        LET sd == parse_datetime(s.val, modern) IN
        IF sd.k = "raise" THEN sd ELSE
        PyMax(pd.val, sd.val))

is_vehicle_active(slf) ==
    backend_parameter(slf, GetItem(slf.properties, "inMotion"))

is_vehicle_tracking_enabled(slf) ==
    backend_parameter(slf, Contains("vehicleLocation", slf.properties))

gps_position(slf) ==
    backend_parameter(slf,
        LET tracking == is_vehicle_tracking_enabled(slf) IN
        IF tracking.k = "raise" THEN tracking ELSE
        IF ~Truthy(tracking.val) THEN Return(None) ELSE
        LET active == is_vehicle_active(slf) IN
        IF active.k = "raise" THEN active ELSE
        IF Truthy(active.val) THEN Return(None) ELSE
        LET pos == Path(slf.properties, <<"vehicleLocation", "coordinates">>) IN
        IF pos.k = "raise" THEN pos ELSE
        LET lat == GetItem(pos.val, "latitude") IN
        IF lat.k = "raise" THEN lat ELSE
        LET flat == ToFloat(lat.val) IN
        IF flat.k = "raise" THEN flat ELSE
        LET lon == GetItem(pos.val, "longitude") IN
        IF lon.k = "raise" THEN lon ELSE
        LET flon == ToFloat(lon.val) IN
        IF flon.k = "raise" THEN flon ELSE
        Return(PyTuple(<<flat.val, flon.val>>)))

gps_heading(slf) ==
    backend_parameter(slf,
        LET tracking == is_vehicle_tracking_enabled(slf) IN
        IF tracking.k = "raise" THEN tracking ELSE
        IF ~Truthy(tracking.val) THEN Return(None) ELSE
        LET active == is_vehicle_active(slf) IN
        IF active.k = "raise" THEN active ELSE
        IF Truthy(active.val) THEN Return(None) ELSE
        LET pos == GetItem(slf.properties, "vehicleLocation") IN
        IF pos.k = "raise" THEN pos ELSE
        LET heading == GetItem(pos.val, "heading") IN
        IF heading.k = "raise" THEN heading ELSE
        ToInt(heading.val))

mileage(slf) ==
    backend_parameter(slf, value_with_unit(slf.status, <<"currentMileage">>, "mileage", "units"))

remaining_range_fuel(slf) ==
    backend_parameter(slf,
        LET has == Contains("combustionRange", slf.properties) IN
        IF has.k = "raise" THEN has ELSE
        IF ~has.val.b THEN Return(PyTuple(<<None, None>>)) ELSE
        value_with_unit(slf.properties, <<"combustionRange", "distance">>, "value", "units"))

remaining_fuel(slf) ==
    backend_parameter(slf, value_with_unit(slf.properties, <<"fuelLevel">>, "value", "units"))

fuel_indicator_count(slf) ==
    backend_parameter(slf,
        LET ind == GetItem(slf.status, "fuelIndicators") IN
        IF ind.k = "raise" THEN ind ELSE PyLen(ind.val))

lids(slf) ==
    backend_parameter(slf,
        LET dw == GetItem(slf.properties, "doorsAndWindows") IN
        IF dw.k = "raise" THEN dw ELSE
        IF dw.val.t # "dict" THEN Raise(AttributeError) ELSE
        LET fixed == lid_comprehension("Lid", dw.val, dw.val.keys, {"hood", "trunk"}) IN
        IF fixed.k = "raise" THEN fixed ELSE
        LET doors == GetItem(dw.val, "doors") IN
        IF doors.k = "raise" THEN doors ELSE
        IF doors.val.t # "dict" THEN Raise(AttributeError) ELSE
        LET rest == lid_comprehension("Lid", doors.val, doors.val.keys, DOMAIN doors.val.d) IN
        IF rest.k = "raise" THEN rest ELSE
        Return(PyList(fixed.val \o rest.val)))

\* [lid for lid in lst if not lid.is_closed]
open_filter(lst) ==
    IF lst.k = "raise" THEN lst
    ELSE IF lst.val.t # "list" THEN Raise(TypeError)
    ELSE Return(PyList(SelectSeq(lst.val.items, LAMBDA lid : ~is_closed(lid))))

open_lids(slf) == open_filter(lids(slf))

all_lids_closed(slf) ==
    LET open == open_lids(slf) IN
    IF open.k = "raise" THEN open ELSE Return(PyBool(Len(open.val.items) = 0))

windows(slf) ==
    backend_parameter(slf,
        LET dw == GetItem(slf.properties, "doorsAndWindows") IN
        IF dw.k = "raise" THEN dw ELSE
        LET w == DictGet(dw.val, "windows", None) IN
        IF w.k = "raise" THEN w ELSE
        IF w.val.t # "dict" THEN Raise(AttributeError) ELSE
        LET res == lid_comprehension("Window", w.val, w.val.keys, DOMAIN w.val.d) IN
        IF res.k = "raise" THEN res ELSE Return(PyList(res.val)))

open_windows(slf) == open_filter(windows(slf))

all_windows_closed(slf) ==
    LET open == open_windows(slf) IN
    IF open.k = "raise" THEN open ELSE Return(PyBool(Len(open.val.items) = 0))

door_lock_state(slf) ==
    backend_parameter(slf,
        LET raw == GetItem(slf.status, "doorsGeneralState") IN
        IF raw.k = "raise" THEN raw ELSE
        LET up == Upper(raw.val) IN
        IF up.k = "raise" THEN up ELSE EnumCall("LockState", up.val))

last_update_reason(slf) ==
    backend_parameter(slf, GetItem(slf.status, "timestampMessage"))

last_charging_end_result(slf) == backend_parameter(slf, Return(None))

connection_status(slf) ==
    backend_parameter(slf,
        LET has == Contains("chargingState", slf.properties) IN
        IF has.k = "raise" THEN has ELSE
        IF ~has.val.b THEN Return(None) ELSE
        LET conn == Path(slf.properties, <<"chargingState", "isChargerConnected">>) IN
        IF conn.k = "raise" THEN conn ELSE
        Return(PyStr(IF Truthy(conn.val) THEN "CONNECTED" ELSE "DISCONNECTED")))

condition_based_services(slf, modern) ==
    backend_parameter(slf,
        LET sr == GetItem(slf.properties, "serviceRequired") IN
        IF sr.k = "raise" THEN sr ELSE
        IF sr.val.t # "list" THEN Raise(TypeError) ELSE
        LET res == cbs_comprehension(sr.val.items, modern) IN
        IF res.k = "raise" THEN res ELSE Return(PyList(res.val)))

\* the loop looking at the first service only
are_all_cbs_ok_first_only(slf, modern) ==
    LET cbs == condition_based_services(slf, modern) IN
    IF cbs.k = "raise" THEN cbs
    ELSE IF cbs.val.t # "list" THEN Raise(TypeError)
    ELSE Return(PyBool(\A i \in 1..Len(cbs.val.items) :
                          i = 1 => cbs.val.items[i].state = PyEnum("ConditionBasedServiceStatus", "OK")))

are_all_cbs_ok(slf, modern) ==
    LET cbs == condition_based_services(slf, modern) IN
    IF cbs.k = "raise" THEN cbs
    ELSE IF cbs.val.t # "list" THEN Raise(TypeError)
    ELSE Return(PyBool(\A i \in 1..Len(cbs.val.items) :
                          cbs.val.items[i].state = PyEnum("ConditionBasedServiceStatus", "OK")))

parking_lights(slf) == backend_parameter(slf, Return(None))

has_parking_light_state(slf) == Return(PyBool(FALSE))

are_parking_lights_on(slf) == Return(None)

remaining_range_electric(slf) ==
    backend_parameter(slf,
        LET has == Contains("electricRange", slf.properties) IN
        IF has.k = "raise" THEN has ELSE
        IF ~has.val.b THEN Return(PyTuple(<<None, None>>)) ELSE
        value_with_unit(slf.properties, <<"electricRange", "distance">>, "value", "units"))

\* the value taken without the "or 0" default
range_value_without_default(rng) ==
    Index(PyOr(rng, PyList(<<PyInt(0)>>)), 0)

\* ((rng or [0])[0] or 0)
range_value_or_zero(rng) ==
    LET first == Index(PyOr(rng, PyList(<<PyInt(0)>>)), 0) IN
    IF first.k = "raise" THEN first ELSE Return(PyOr(first.val, PyInt(0)))

remaining_range_total(slf) ==
    backend_parameter(slf,
        LET fuel == remaining_range_fuel(slf)
            electric == remaining_range_electric(slf)
        IN
        IF fuel.k = "raise" THEN fuel ELSE
        IF ~Truthy(fuel.val) /\ electric.k = "raise" THEN electric ELSE
        IF ~Truthy(fuel.val) /\ ~Truthy(electric.val) THEN Return(PyTuple(<<None, None>>)) ELSE
        LET f == range_value_or_zero(fuel.val) IN
        IF f.k = "raise" THEN f ELSE
        IF electric.k = "raise" THEN electric ELSE
        LET e == range_value_or_zero(electric.val) IN
        IF e.k = "raise" THEN e ELSE
        LET total == PyAdd(f.val, e.val) IN
        IF total.k = "raise" THEN total ELSE
        LET unit == Index(PyOr(fuel.val, electric.val), 1) IN
        IF unit.k = "raise" THEN unit ELSE
        Return(PyTuple(<<total.val, unit.val>>)))

max_range_electric(slf) == backend_parameter(slf, Return(None))

charging_status(slf) ==
    backend_parameter(slf,
        LET has == Contains("chargingState", slf.properties) IN
        IF has.k = "raise" THEN has ELSE
        IF ~has.val.b THEN Return(None) ELSE
        LET st == Path(slf.properties, <<"chargingState", "state">>) IN
        IF st.k = "raise" THEN st ELSE EnumCall("ChargingState", st.val))

charging_time_remaining(slf) == backend_parameter(slf, Return(None))

charging_level_hv(slf) ==
    backend_parameter(slf,
        LET pct == Path(slf.properties, <<"electricRangeAndStatus", "chargePercentage">>) IN
        IF pct.k = "raise" THEN pct ELSE ToInt(pct.val))

fuel_percent(slf) ==
    backend_parameter(slf,
        LET pct == Path(slf.properties, <<"fuelPercentage", "value">>) IN
        IF pct.k = "raise" THEN pct ELSE ToInt(pct.val))

check_control_messages(slf) ==
    backend_parameter(slf,
        LET messages == DictGet(slf.status, "checkControlMessages", PyList(<<>>)) IN
        IF messages.k = "raise" THEN messages ELSE
        IF messages.val.t # "list" THEN Raise(TypeError) ELSE
        LET res == ccm_comprehension(messages.val.items) IN
        IF res.k = "raise" THEN res ELSE Return(PyList(res.val)))

has_check_control_messages(slf) ==
    backend_parameter(slf,
        LET ccm == check_control_messages(slf) IN
        IF ccm.k = "raise" THEN ccm ELSE
        LET n == PyLen(ccm.val) IN
        IF n.k = "raise" THEN n ELSE Return(PyBool(n.val.n > 0)))

----------------------------------------------------------------------------
(* Raw snapshots handed to the constructor *)

\* a key that is either missing or bound to one of the values
Opt(key, values) == {<<>>} \cup {<< <<key, v>> >> : v \in values}

EmptyDict == PyDict(<<>>)

Units == {"km", "mi"}

ValueUnit(value_key, n, u) == PyDict(<< <<value_key, PyInt(n)>>, <<"units", PyStr(u)>> >>)

\* combustionRange / electricRange objects: without "distance", or complete
RangeObjs ==
    {EmptyDict} \cup
    {PyDict(<< <<"distance", ValueUnit("value", n, u)>> >>) : n \in 0..MaxRange, u \in Units}

RangeProperties ==
    {PyDict(c \o e) : c \in Opt("combustionRange", RangeObjs), e \in Opt("electricRange", RangeObjs)}

\* all timestamp strings of at most MaxTokens tokens
TimeStrings == {PyTimeStr(toks) : toks \in UNION {[1..n -> Tokens] : n \in 0..MaxTokens}}

\* lastUpdatedAt strings: empty, garbage, one per accepted spelling, no zone
SnapshotTimeStrings ==
    {PyTimeStr(<<>>), PyTimeStr(<<"X">>)} \cup
    UNION {{PyTimeStr(<<DateTok(i), "FRAC", "OFF">>),
            PyTimeStr(<<DateTok(i), "OFF">>),
            PyTimeStr(<<DateTok(i), "OFFC">>),
            PyTimeStr(<<DateTok(i), "FRAC", "Z">>),
            PyTimeStr(<<DateTok(i), "Z">>),
            PyTimeStr(<<DateTok(i)>>)} : i \in 1..NumInstants}

LockCodes == LockState \cup {"locked", "unlocked", "bogus", "BOGUS"}
ChargingCodes == ChargingState \cup {"BOGUS"}
LidCodes == LidState \cup {"BOGUS"}
CbsCodes == ConditionBasedServiceStatus \cup {"BOGUS"}

ChargingObjs ==
    {EmptyDict, PyDict(<< <<"state", PyStr("CHARGING")>> >>)} \cup
    {PyDict(<< <<"state", PyStr(c)>>, <<"isChargerConnected", PyBool(b)>> >>) :
        c \in ChargingCodes, b \in BOOLEAN}

\* names of the doors / windows a snapshot reports, in payload order
DoorNames == <<"driverFront", "passengerFront", "driverRear", "passengerRear">>
WindowNames == <<"driverFront", "passengerFront", "driverRear", "passengerRear">>

\* dicts giving a raw code to each of the first n names, n <= MaxDoors
LidDicts(names) ==
    {PyDict([i \in 1..Len(codes) |-> <<names[i], PyStr(codes[i])>>]) :
        codes \in UNION {[1..m -> LidCodes] : m \in 0..MaxDoors}}

\* hood and trunk beside few doors, many doors beside a hood, windows alone
DoorsAndWindowsObjs ==
    {PyDict(h \o tr \o dr) :
        h \in Opt("hood", {PyStr(c) : c \in LidCodes}),
        tr \in Opt("trunk", {PyStr("CLOSED")}),
        dr \in Opt("doors", {EmptyDict, PyDict(<< <<"driverFront", PyStr("OPEN")>> >>)})} \cup
    {PyDict(h \o <<  <<"doors", dr>> >>) :
        h \in Opt("hood", {PyStr("OPEN")}),
        dr \in LidDicts(DoorNames)} \cup
    {PyDict(<< <<"windows", w>> >>) : w \in LidDicts(WindowNames)}

ADate == PyTimeStr(<<DateTok(1), "OFF">>)

CbsItems ==
    {PyDict(<< <<"dateTime", ADate>>, <<"status", PyStr(c)>>, <<"type", PyStr("OIL")>>,
               <<"distance", ValueUnit("value", 1, "km")>> >>) : c \in CbsCodes} \cup
    {PyDict(<< <<"status", PyStr("OK")>>, <<"type", PyStr("OIL")>> >>),
     PyDict(<< <<"dateTime", PyTimeStr(<<"X">>)>>, <<"status", PyStr("PENDING")>>, <<"type", PyStr("OIL")>> >>),
     PyDict(<< <<"dateTime", ADate>>, <<"type", PyStr("OIL")>> >>),
     PyDict(<< <<"dateTime", ADate>>, <<"status", PyStr("OK")>> >>),
     PyDict(<< <<"status", PyStr("OK")>>, <<"type", PyStr("OIL")>>, <<"distance", EmptyDict>> >>)}

CcmItems ==
    {EmptyDict} \cup {PyDict(<< <<"state", PyStr(c)>>, <<"id", PyInt(1)>> >>) : c \in {"OK", "CRITICAL", "LOW"}}

ListsOf(items) == {PyList(l) : l \in UNION {[1..n -> items] : n \in 0..MaxItems}}

LocationObjs ==
    {EmptyDict,
     PyDict(<< <<"coordinates", EmptyDict>>, <<"heading", None>> >>),
     PyDict(<< <<"coordinates", PyDict(<< <<"latitude", PyInt(1)>> >>)>>, <<"heading", PyStr("north")>> >>),
     PyDict(<< <<"coordinates", PyDict(<< <<"latitude", PyInt(1)>>, <<"longitude", PyInt(2)>> >>)>>,
               <<"heading", PyInt(1)>> >>)}

MiscStatus ==
    {PyDict(m \o f \o r) :
        m \in Opt("currentMileage", {EmptyDict} \cup {ValueUnit("mileage", n, u) : n \in 0..MaxRange, u \in Units}),
        f \in Opt("fuelIndicators", {PyList(<<>>), PyList(<<EmptyDict>>), None}),
        r \in Opt("timestampMessage", {PyStr("DOOR_STATE_CHANGED")})}

MiscProperties ==
    {PyDict(m \o l) :
        m \in Opt("inMotion", {PyBool(b) : b \in BOOLEAN}),
        l \in Opt("vehicleLocation", LocationObjs)} \cup
    {PyDict(fl \o er \o fp) :
        fl \in Opt("fuelLevel", {EmptyDict, ValueUnit("value", 1, "L")}),
        er \in Opt("electricRangeAndStatus", {EmptyDict, PyDict(<< <<"chargePercentage", PyInt(1)>> >>)}),
        fp \in Opt("fuelPercentage", {EmptyDict, PyDict(<< <<"value", PyStr("n/a")>> >>),
                                      PyDict(<< <<"value", PyInt(1)>> >>)})}

\* a status / properties mapping with data in it
SampleStatus ==
    PyDict(<< <<"lastUpdatedAt", ADate>>, <<"doorsGeneralState", PyStr("LOCKED")>>,
              <<"currentMileage", ValueUnit("mileage", 1, "km")>>,
              <<"fuelIndicators", PyList(<<>>)>>,
              <<"checkControlMessages", PyList(<<>>)>> >>)
SampleProperties ==
    PyDict(<< <<"lastUpdatedAt", ADate>>,
              <<"combustionRange", PyDict(<< <<"distance", ValueUnit("value", 1, "km")>> >>)>>,
              <<"doorsAndWindows", PyDict(<< <<"doors", EmptyDict>>, <<"windows", EmptyDict>> >>)>>,
              <<"serviceRequired", PyList(<<>>)>> >>)

Snapshot(status, properties) == PyDict(<< <<"status", status>>, <<"properties", properties>> >>)

\* either container None, empty or filled, and payloads without one of the
\* two top-level keys
ContainerSnapshots ==
    {Snapshot(s, p) : s \in {None, EmptyDict, SampleStatus}, p \in {None, EmptyDict, SampleProperties}} \cup
    {PyDict(<< <<"status", EmptyDict>> >>), PyDict(<< <<"properties", EmptyDict>> >>)}

Snapshots ==
    ContainerSnapshots \cup
    {Snapshot(EmptyDict, p) : p \in RangeProperties} \cup
    {Snapshot(PyDict(s), PyDict(p)) : s \in Opt("lastUpdatedAt", SnapshotTimeStrings),
                                      p \in Opt("lastUpdatedAt", SnapshotTimeStrings)} \cup
    {Snapshot(PyDict(s), p) : s \in Opt("doorsGeneralState", {PyStr(c) : c \in LockCodes} \cup {None}),
                              p \in {None, EmptyDict}} \cup
    {Snapshot(EmptyDict, PyDict(p)) : p \in Opt("chargingState", ChargingObjs)} \cup
    {Snapshot(EmptyDict, PyDict(p)) : p \in Opt("doorsAndWindows", DoorsAndWindowsObjs)} \cup
    {Snapshot(EmptyDict, PyDict(p)) : p \in Opt("serviceRequired", ListsOf(CbsItems))} \cup
    {Snapshot(PyDict(s), EmptyDict) : s \in Opt("checkControlMessages", ListsOf(CcmItems))} \cup
    {Snapshot(s, EmptyDict) : s \in MiscStatus} \cup
    {Snapshot(EmptyDict, p) : p \in MiscProperties}

----------------------------------------------------------------------------
(* The state machine: one VehicleStatus object and the calls made on it *)

Called(name, arg, outcome) ==
    /\ call' = [name |-> name, arg |-> arg]
    /\ result' = outcome

Read(name, outcome) ==
    /\ Called(name, None, outcome)
    /\ UNCHANGED <<py37, self, vehicle>>

\* VehicleStatus(state): a later poll replaces the object by a new one
Construct ==
    \E state \in ContainerSnapshots :
        LET r == VehicleStatus(state) IN
        /\ self' = IF r.k = "raise" THEN self ELSE r.val
        /\ Called("__init__", None, IF r.k = "raise" THEN r ELSE Return(None))
        /\ UNCHANGED <<py37, vehicle>>

Read_timestamp == Read("timestamp", timestamp(self, py37))
Read_gps_position == Read("gps_position", gps_position(self))
Read_gps_heading == Read("gps_heading", gps_heading(self))
Read_is_vehicle_active == Read("is_vehicle_active", is_vehicle_active(self))
Read_is_vehicle_tracking_enabled == Read("is_vehicle_tracking_enabled", is_vehicle_tracking_enabled(self))
Read_mileage == Read("mileage", mileage(self))
Read_remaining_range_fuel == Read("remaining_range_fuel", remaining_range_fuel(self))
Read_remaining_fuel == Read("remaining_fuel", remaining_fuel(self))
Read_fuel_indicator_count == Read("fuel_indicator_count", fuel_indicator_count(self))
Read_lids == Read("lids", lids(self))
Read_open_lids == Read("open_lids", open_lids(self))
Read_all_lids_closed == Read("all_lids_closed", all_lids_closed(self))
Read_windows == Read("windows", windows(self))
Read_open_windows == Read("open_windows", open_windows(self))
Read_all_windows_closed == Read("all_windows_closed", all_windows_closed(self))
Read_door_lock_state == Read("door_lock_state", door_lock_state(self))
Read_last_update_reason == Read("last_update_reason", last_update_reason(self))
Read_last_charging_end_result == Read("last_charging_end_result", last_charging_end_result(self))
Read_connection_status == Read("connection_status", connection_status(self))
Read_condition_based_services == Read("condition_based_services", condition_based_services(self, py37))
Read_are_all_cbs_ok == Read("are_all_cbs_ok", are_all_cbs_ok(self, py37))
Read_parking_lights == Read("parking_lights", parking_lights(self))
Read_has_parking_light_state == Read("has_parking_light_state", has_parking_light_state(self))
Read_are_parking_lights_on == Read("are_parking_lights_on", are_parking_lights_on(self))
Read_remaining_range_electric == Read("remaining_range_electric", remaining_range_electric(self))
Read_remaining_range_total == Read("remaining_range_total", remaining_range_total(self))
Read_max_range_electric == Read("max_range_electric", max_range_electric(self))
Read_charging_status == Read("charging_status", charging_status(self))
Read_charging_time_remaining == Read("charging_time_remaining", charging_time_remaining(self))
Read_charging_level_hv == Read("charging_level_hv", charging_level_hv(self))
Read_fuel_percent == Read("fuel_percent", fuel_percent(self))
Read_check_control_messages == Read("check_control_messages", check_control_messages(self))
Read_has_check_control_messages == Read("has_check_control_messages", has_check_control_messages(self))

\* a call that has been made and has not returned yet
Pending == [k |-> "pending"]

\* parse_datetime(date_str), called on its own
ParseDatetime ==
    /\ call.name = "parse_datetime"
    /\ result = Pending
    /\ result' = parse_datetime(call.arg, py37)
    /\ UNCHANGED <<py37, self, vehicle, call>>

InitObject(states) ==
    /\ py37 \in BOOLEAN
    /\ \E state \in states :
          /\ VehicleStatus(state).k = "return"
          /\ self = VehicleStatus(state).val
    /\ vehicle = None
    /\ call = [name |-> "__init__", arg |-> None]
    /\ result = Return(None)

Init == InitObject(Snapshots)

Next ==
    \/ Construct
    \/ Read_timestamp
    \/ Read_gps_position
    \/ Read_gps_heading
    \/ Read_is_vehicle_active
    \/ Read_is_vehicle_tracking_enabled
    \/ Read_mileage
    \/ Read_remaining_range_fuel
    \/ Read_remaining_fuel
    \/ Read_fuel_indicator_count
    \/ Read_lids
    \/ Read_open_lids
    \/ Read_all_lids_closed
    \/ Read_windows
    \/ Read_open_windows
    \/ Read_all_windows_closed
    \/ Read_door_lock_state
    \/ Read_last_update_reason
    \/ Read_last_charging_end_result
    \/ Read_connection_status
    \/ Read_condition_based_services
    \/ Read_are_all_cbs_ok
    \/ Read_parking_lights
    \/ Read_has_parking_light_state
    \/ Read_are_parking_lights_on
    \/ Read_remaining_range_electric
    \/ Read_remaining_range_total
    \/ Read_max_range_electric
    \/ Read_charging_status
    \/ Read_charging_time_remaining
    \/ Read_charging_level_hv
    \/ Read_fuel_percent
    \/ Read_check_control_messages
    \/ Read_has_check_control_messages

Spec == Init /\ [][Next]_vars

\* parse_datetime as a pure function of its argument
InitParse ==
    /\ py37 \in BOOLEAN
    /\ self = VehicleStatus(Snapshot(EmptyDict, EmptyDict)).val
    /\ vehicle = None
    /\ \E date_str \in TimeStrings \cup {None} : call = [name |-> "parse_datetime", arg |-> date_str]
    /\ result = Pending

NextParse == ParseDatetime

SpecParse == InitParse /\ [][NextParse]_vars

----------------------------------------------------------------------------
(* vehicle.vehicle.MyBMWVehicle *)

\* A vehicle object. entity maps each attribute to the identity of the object
\* it holds (0 is None), nobj counts the objects made so far; updated and
\* from_calls log the last update_state: the objects update_from_vehicle_data
\* was called on, the attributes from_vehicle_data was called for.

\* keys of the combined data (bimmer_connected.const)
ATTR_STATE == "state"
ATTR_ATTRIBUTES == "attributes"
ATTR_CHARGING_SETTINGS == "charging_settings"

\* bimmer_connected.vehicle.const
DriveTrainType ==
    {"COMBUSTION", "PLUGIN_HYBRID", "ELECTRIC", "ELECTRIC_WITH_RANGE_EXTENDER", "MILD_HYBRID", "UNKNOWN"}
HV_BATTERY_DRIVE_TRAINS == {"PLUGIN_HYBRID", "ELECTRIC", "ELECTRIC_WITH_RANGE_EXTENDER"}
COMBUSTION_ENGINE_DRIVE_TRAINS ==
    {"COMBUSTION", "PLUGIN_HYBRID", "ELECTRIC_WITH_RANGE_EXTENDER", "MILD_HYBRID"}

\* DriveTrainType(value): a StrEnum, whose unknown values become UNKNOWN
DriveTrainTypeCall(value) ==
    IF value.t = "str" /\ ~IsStrTimeStr(value) /\ value.s \in DriveTrainType
    THEN Return(PyEnum("DriveTrainType", value.s))
    ELSE Return(PyEnum("DriveTrainType", "UNKNOWN"))

\* {**a, **b}: the keys of a in their order, then the new keys of b; the
\* values of b win
DictMerge(a, b) ==
    [t |-> "dict",
     keys |-> a.keys \o SelectSeq(b.keys, LAMBDA key : key \notin DOMAIN a.d),
     d |-> [key \in DOMAIN a.d \cup DOMAIN b.d |->
               IF key \in DOMAIN b.d THEN b.d[key] ELSE a.d[key]]]

\* MyBMWVehicle.combine_data; now is datetime.datetime.now(datetime.timezone.utc)
combine_data(account, vehicle_base, vehicle_state, charging_settings, fetched_at, now) ==
    DictMerge(DictMerge(vehicle_base, PyOr(vehicle_state, EmptyDict)),
              PyDict(<< <<ATTR_CHARGING_SETTINGS, PyOr(charging_settings, EmptyDict)>>,
                        <<"is_metric", PyBool(account.use_metric_units)>>,
                        <<"fetched_at", PyOr(fetched_at, now)>> >>))

\* (cls, vehicle_attribute) pairs of update_state, in its order
update_entities ==
    << <<"FuelAndBattery", "fuel_and_battery">>,
       <<"VehicleLocation", "vehicle_location">>,
       <<"DoorsAndWindows", "doors_and_windows">>,
       <<"ConditionBasedServiceReport", "condition_based_services">>,
       <<"CheckControlMessageReport", "check_control_messages">>,
       <<"Headunit", "headunit">>,
       <<"Climate", "climate">>,
       <<"ChargingProfile", "charging_profile">>,
       <<"Tires", "tires">> >>

Entities == {update_entities[i][2] : i \in 1..Len(update_entities)}

\* the entities __init__ leaves None
OptionalEntities == {"charging_profile", "tires"}

\* the loop calling cls.from_vehicle_data for every entity
RECURSIVE update_loop_always_new(_, _, _)
update_loop_always_new(v, entities, made) ==
    IF entities = <<>> THEN v
    ELSE LET vehicle_attribute == Head(entities)[2]
             called == [v EXCEPT !.from_calls = @ \cup {vehicle_attribute}] IN
         IF vehicle_attribute \in made
         THEN update_loop_always_new([called EXCEPT !.entity[vehicle_attribute] = v.nobj + 1,
                                                    !.nobj = v.nobj + 1],
                                     Tail(entities), made)
         ELSE update_loop_always_new([called EXCEPT !.entity[vehicle_attribute] = 0],
                                     Tail(entities), made)

\* for cls, vehicle_attribute in update_entities: ...; made holds the
\* attributes for which cls.from_vehicle_data(vehicle_data) gives an object
\* and not None
RECURSIVE update_loop(_, _, _)
update_loop(v, entities, made) ==
    IF entities = <<>> THEN v
    ELSE LET vehicle_attribute == Head(entities)[2] IN
         IF v.entity[vehicle_attribute] = 0
         THEN LET called == [v EXCEPT !.from_calls = @ \cup {vehicle_attribute}] IN
              IF vehicle_attribute \in made
              THEN update_loop([called EXCEPT !.entity[vehicle_attribute] = v.nobj + 1,
                                              !.nobj = v.nobj + 1],
                               Tail(entities), made)
              ELSE update_loop(called, Tail(entities), made)
         ELSE update_loop([v EXCEPT !.updated = @ \cup {v.entity[vehicle_attribute]}],
                          Tail(entities), made)

\* MyBMWVehicle.update_state
update_state(v, vehicle_base, vehicle_state, charging_settings, fetched_at, now, made) ==
    LET vehicle_data == combine_data(v.account, vehicle_base, vehicle_state, charging_settings,
                                     fetched_at, now)
    IN update_loop([v EXCEPT !.data = vehicle_data, !.updated = {}, !.from_calls = {}],
                   update_entities, made)

\* MyBMWVehicle.__init__: seven entities built with their defaults, two left
\* None, then update_state
MyBMWVehicle(account, vehicle_base, vehicle_state, charging_settings, fetched_at, now, made) ==
    update_state(
        [account |-> account,
         data |-> combine_data(account, vehicle_base, vehicle_state, charging_settings, fetched_at, now),
         entity |-> [vehicle_attribute \in Entities |->
                        IF vehicle_attribute \in OptionalEntities THEN 0
                        ELSE CHOOSE i \in 1..Len(update_entities) :
                                update_entities[i][2] = vehicle_attribute],
         nobj |-> Cardinality(Entities \ OptionalEntities),
         updated |-> {},
         from_calls |-> {},
         polls |-> 0],
        vehicle_base, vehicle_state, charging_settings, fetched_at, now, made)

drive_train(v) ==
    LET value == Path(v.data, <<ATTR_ATTRIBUTES, "driveTrain">>) IN
    IF value.k = "raise" THEN value ELSE DriveTrainTypeCall(value.val)

has_electric_drivetrain(v) ==
    LET dt == drive_train(v) IN
    IF dt.k = "raise" THEN dt ELSE Return(PyBool(dt.val.member \in HV_BATTERY_DRIVE_TRAINS))

has_combustion_drivetrain(v) ==
    LET dt == drive_train(v) IN
    IF dt.k = "raise" THEN dt ELSE Return(PyBool(dt.val.member \in COMBUSTION_ENGINE_DRIVE_TRAINS))

is_lsc_enabled(v) == Path(v.data, <<ATTR_STATE, "isLscSupported">>)

ElectricAttributes ==
    <<"charging_time_remaining", "charging_start_time", "charging_end_time", "charging_time_label",
      "charging_status", "connection_status", "remaining_battery_percent", "remaining_range_electric",
      "last_charging_end_result", "ac_current_limit", "charging_target", "charging_mode",
      "charging_preferences", "is_pre_entry_climatization_enabled">>

CombustionAttributes == <<"remaining_fuel", "remaining_range_fuel", "remaining_fuel_percent">>

\* a list of str
StrList(names) == PyList([i \in 1..Len(names) |-> PyStr(names[i])])

\* drive_train_attributes adding the combustion attributes for every vehicle
drive_train_attributes_always_fuel(v) ==
    LET electric == has_electric_drivetrain(v) IN
    IF electric.k = "raise" THEN electric ELSE
    Return(StrList(<<"remaining_range_total", "mileage">>
                   \o (IF electric.val.b THEN ElectricAttributes ELSE <<>>)
                   \o CombustionAttributes))

drive_train_attributes(v) ==
    LET electric == has_electric_drivetrain(v) IN
    IF electric.k = "raise" THEN electric ELSE
    LET combustion == has_combustion_drivetrain(v) IN
    IF combustion.k = "raise" THEN combustion ELSE
    Return(StrList(<<"remaining_range_total", "mileage">>
                   \o (IF electric.val.b THEN ElectricAttributes ELSE <<>>)
                   \o (IF combustion.val.b THEN CombustionAttributes ELSE <<>>)))

available_attributes(v) ==
    LET lsc == is_lsc_enabled(v) IN
    IF lsc.k = "raise" THEN lsc ELSE
    IF ~Truthy(lsc.val) THEN Return(StrList(<<"gps_position", "vin">>)) ELSE
    LET dta == drive_train_attributes(v) IN
    IF dta.k = "raise" THEN dta ELSE
    Return(PyList(StrList(<<"gps_position", "vin">>).items \o dta.val.items
                  \o StrList(<<"condition_based_services", "check_control_messages",
                                "door_lock_state", "timestamp">>).items
                  \o StrList(<<"lids", "windows">>).items))

\* Inputs of __init__ and update_state

DriveTrainCodes == DriveTrainType \cup {"BOGUS"}

VehicleBase(attributes) == PyDict(<< <<"vin", PyStr("VIN")>> >> \o attributes)

AttributesWith(code) == << <<ATTR_ATTRIBUTES, PyDict(<< <<"driveTrain", PyStr(code)>> >>)>> >>

StateWith(state) == PyDict(<< <<ATTR_STATE, PyDict(state)>> >>)

\* <<vehicle_base, vehicle_state>>: every drive train with isLscSupported
\* true; some drive trains with it false, None or missing and without any
\* state; bases without drive train; a state that overrides the attributes
VehicleInputs ==
    {<<VehicleBase(AttributesWith(code)), StateWith(<< <<"isLscSupported", PyBool(TRUE)>> >>)>> :
        code \in DriveTrainCodes} \cup
    {<<VehicleBase(AttributesWith(code)), state>> :
        code \in {"ELECTRIC", "MILD_HYBRID"},
        state \in {None, StateWith(<<>>), StateWith(<< <<"isLscSupported", PyBool(FALSE)>> >>),
                   StateWith(<< <<"isLscSupported", None>> >>)}} \cup
    {<<VehicleBase(attributes), StateWith(<< <<"isLscSupported", PyBool(TRUE)>> >>)>> :
        attributes \in {<<>>, << <<ATTR_ATTRIBUTES, EmptyDict>> >>}} \cup
    {<<VehicleBase(AttributesWith("COMBUSTION")),
       PyDict(<< <<ATTR_STATE, PyDict(<< <<"isLscSupported", PyBool(TRUE)>> >>)>> >>
              \o AttributesWith("ELECTRIC"))>>}

\* which entities the data of a poll yields an object for
FromVehicleDataResults ==
    {Entities, Entities \ {"tires"}, Entities \ {"charging_profile"}, Entities \ OptionalEntities}

Accounts == {[use_metric_units |-> metric] : metric \in BOOLEAN}

\* the clock reading of the n-th poll
Now(n) == PyDatetime(n, TRUE, "utc")

FetchedAt(n) == {None, PyDatetime(n, FALSE, "utc")}

----------------------------------------------------------------------------
(* The state machine of one MyBMWVehicle object *)

\* a poll: update_state with the fetched responses
UpdateState ==
    /\ vehicle.polls < MaxPolls
    /\ \E input \in VehicleInputs, made \in FromVehicleDataResults,
          fetched_at \in FetchedAt(vehicle.polls + 1) :
          vehicle' = [update_state(vehicle, input[1], input[2], None, fetched_at,
                                   Now(vehicle.polls + 1), made)
                      EXCEPT !.polls = vehicle.polls + 1]
    /\ Called("update_state", None, Return(None))
    /\ UNCHANGED <<py37, self>>

Read_drive_train_attributes == Read("drive_train_attributes", drive_train_attributes(vehicle))
Read_available_attributes == Read("available_attributes", available_attributes(vehicle))

InitVehicle ==
    /\ py37 = TRUE
    /\ self = VehicleStatus(Snapshot(EmptyDict, EmptyDict)).val
    /\ \E account \in Accounts, input \in VehicleInputs, made \in FromVehicleDataResults,
          fetched_at \in FetchedAt(0) :
          vehicle = MyBMWVehicle(account, input[1], input[2], None, fetched_at, Now(0), made)
    /\ call = [name |-> "__init__", arg |-> None]
    /\ result = Return(None)

NextVehicle ==
    \/ UpdateState
    \/ Read_drive_train_attributes
    \/ Read_available_attributes

SpecVehicle == InitVehicle /\ [][NextVehicle]_vars

----------------------------------------------------------------------------
(* Vocabulary of the properties *)

WrappedAccessors ==
    {"timestamp", "gps_position", "gps_heading", "is_vehicle_active", "is_vehicle_tracking_enabled",
     "mileage", "remaining_range_fuel", "remaining_fuel", "fuel_indicator_count", "lids", "windows",
     "door_lock_state", "last_update_reason", "last_charging_end_result", "connection_status",
     "condition_based_services", "parking_lights", "remaining_range_electric", "remaining_range_total",
     "max_range_electric", "charging_status", "charging_time_remaining", "charging_level_hv",
     "fuel_percent", "check_control_messages", "has_check_control_messages"}

Aggregates ==
    {"open_lids", "all_lids_closed", "open_windows", "all_windows_closed", "are_all_cbs_ok",
     "has_check_control_messages"}

IsDict(v) == v.t = "dict"
HasKey(v, key) == IsDict(v) /\ key \in DOMAIN v.d
Present(v, keys) == Path(v, keys).k = "return"
KeyMissing(v, keys) == Path(v, keys) = Raise(KeyError)
Returned(v) == result = Return(v)

\* an absent range: None, or the pair without value and without unit
AbsentRange == {None, PyTuple(<<None, None>>)}
ReturnedAbsentRange == result.k = "return" /\ result.val \in AbsentRange

\* the raw range sub-object is missing / is there with value and unit
NoRange(key) == IsDict(self.properties) /\ key \notin DOMAIN self.properties.d
CompleteRange(key) ==
    /\ Present(self.properties, <<key, "distance", "value">>)
    /\ Present(self.properties, <<key, "distance", "units">>)
RangeValue(key) == Path(self.properties, <<key, "distance", "value">>).val
RangeUnit(key) == Path(self.properties, <<key, "distance", "units">>).val

----------------------------------------------------------------------------
(* Range aggregation *)

\* C1: with neither combustionRange nor electricRange in properties, the fuel
\* range, the electric range and the total range are each absent (no value
\* and no unit); the total is not a number.
C1_TotalAbsentWhenBothAbsent ==
    (NoRange("combustionRange") /\ NoRange("electricRange")) =>
        /\ call.name = "remaining_range_fuel" => ReturnedAbsentRange
        /\ call.name = "remaining_range_electric" => ReturnedAbsentRange
        /\ call.name = "remaining_range_total" => ReturnedAbsentRange

\* C2: when exactly one range component is present, the total carries the
\* unit of that component; with combustionRange missing and electricRange
\* (e, u) the total is (e, u).
C2_UnitOfSinglePresentComponent ==
    call.name = "remaining_range_total" =>
        /\ (NoRange("combustionRange") /\ CompleteRange("electricRange")) =>
              Returned(PyTuple(<<RangeValue("electricRange"), RangeUnit("electricRange")>>))
        /\ (CompleteRange("combustionRange") /\ NoRange("electricRange")) =>
              Returned(PyTuple(<<RangeValue("combustionRange"), RangeUnit("combustionRange")>>))

\* C3: whenever the fuel range (f, uf) is present, the total range is
\* (f + e, uf), e being the electric range value, or 0 when the electric
\* range is absent.
C3_TotalIsSumWithFuelUnit ==
    (call.name = "remaining_range_total" /\ CompleteRange("combustionRange")) =>
        LET f == RangeValue("combustionRange").n
            e == IF CompleteRange("electricRange") THEN RangeValue("electricRange").n ELSE 0
        IN Returned(PyTuple(<<PyInt(f + e), RangeUnit("combustionRange")>>))

\* both components present with different units: the tie-break case
C3_Witness ==
    /\ call.name = "remaining_range_total"
    /\ CompleteRange("combustionRange") /\ CompleteRange("electricRange")
    /\ RangeUnit("combustionRange") # RangeUnit("electricRange")
    /\ RangeValue("electricRange").n > 0
    /\ result.k = "return"

----------------------------------------------------------------------------
(* The accessor wrapper *)

\* C4: whenever status and/or properties is absent (None), in every
\* combination, every wrapped access fails with the 'No data available'
\* error.
C4_NoDataWheneverContainerAbsent ==
    (call.name \in WrappedAccessors /\ (self.status = None \/ self.properties = None)) =>
        result = Raise(NoDataError)

\* the wrapper gets as far as calling the wrapped function
FuncIsCalled == ~(self.properties = None /\ Truthy(self.status))

\* container[keys][value_key] or, after it, container[keys][units_key] is missing
ValueOrUnitMissing(container, keys, value_key, units_key) ==
    \/ KeyMissing(container, Append(keys, value_key))
    \/ Present(container, Append(keys, value_key)) /\ KeyMissing(container, Append(keys, units_key))

NotMoving ==
    ~(Present(self.properties, <<"inMotion">>) /\ Truthy(Path(self.properties, <<"inMotion">>).val))

\* the first lookup of the accessor that can fail does fail on a missing key
LookupRaisesKeyError(name) ==
    LET status == self.status
        properties == self.properties
    IN
    CASE name = "timestamp" ->
            \/ KeyMissing(properties, <<"lastUpdatedAt">>)
            \/ Present(properties, <<"lastUpdatedAt">>) /\ KeyMissing(status, <<"lastUpdatedAt">>)
      [] name = "gps_position" ->
            /\ HasKey(properties, "vehicleLocation") /\ NotMoving
            /\ \/ KeyMissing(properties, <<"vehicleLocation", "coordinates">>)
               \/ KeyMissing(properties, <<"vehicleLocation", "coordinates", "latitude">>)
      [] name = "gps_heading" ->
            /\ HasKey(properties, "vehicleLocation") /\ NotMoving
            /\ KeyMissing(properties, <<"vehicleLocation", "heading">>)
      [] name = "is_vehicle_active" -> KeyMissing(properties, <<"inMotion">>)
      [] name = "mileage" -> ValueOrUnitMissing(status, <<"currentMileage">>, "mileage", "units")
      [] name = "remaining_range_fuel" ->
            /\ HasKey(properties, "combustionRange")
            /\ ValueOrUnitMissing(properties, <<"combustionRange", "distance">>, "value", "units")
      [] name = "remaining_range_electric" ->
            /\ HasKey(properties, "electricRange")
            /\ ValueOrUnitMissing(properties, <<"electricRange", "distance">>, "value", "units")
      [] name = "remaining_fuel" -> ValueOrUnitMissing(properties, <<"fuelLevel">>, "value", "units")
      [] name = "fuel_indicator_count" -> KeyMissing(status, <<"fuelIndicators">>)
      [] name = "lids" ->
            \/ KeyMissing(properties, <<"doorsAndWindows">>)
            \/ /\ Present(properties, <<"doorsAndWindows">>)
               /\ IsDict(properties.d["doorsAndWindows"])
               /\ DOMAIN properties.d["doorsAndWindows"].d \cap {"hood", "trunk", "doors"} = {}
      [] name = "windows" -> KeyMissing(properties, <<"doorsAndWindows">>)
      [] name = "door_lock_state" -> KeyMissing(status, <<"doorsGeneralState">>)
      [] name = "last_update_reason" -> KeyMissing(status, <<"timestampMessage">>)
      [] name = "connection_status" ->
            /\ HasKey(properties, "chargingState")
            /\ KeyMissing(properties, <<"chargingState", "isChargerConnected">>)
      [] name = "charging_status" ->
            /\ HasKey(properties, "chargingState")
            /\ KeyMissing(properties, <<"chargingState", "state">>)
      [] name = "condition_based_services" -> KeyMissing(properties, <<"serviceRequired">>)
      [] name = "charging_level_hv" ->
            KeyMissing(properties, <<"electricRangeAndStatus", "chargePercentage">>)
      [] name = "fuel_percent" -> KeyMissing(properties, <<"fuelPercentage", "value">>)
      [] name = "check_control_messages" ->
            /\ Present(status, <<"checkControlMessages">>)
            /\ LET messages == status.d["checkControlMessages"] IN
               /\ messages.t = "list"
               /\ \A i \in 1..Len(messages.items) : IsDict(messages.items[i])
               /\ \E i \in 1..Len(messages.items) : ~HasKey(messages.items[i], "state")
      [] OTHER -> FALSE

C5_KeyErrorReturnsNone ==
    (call.name \in WrappedAccessors /\ FuncIsCalled /\ LookupRaisesKeyError(call.name)) =>
        Returned(None)

C5_ReadLeavesMappings == call'.name \in WrappedAccessors => self' = self

\* C5: for every wrapped accessor, a field lookup that raises KeyError makes
\* the access return None instead of raising, and no wrapped access changes
\* the status and properties mappings.
C5_MissingKeyGivesNone == []C5_KeyErrorReturnsNone /\ [][C5_ReadLeavesMappings]_vars

\* a lookup below the top level fails: currentMileage is there, its mileage is not
C5_Witness ==
    /\ call.name = "mileage"
    /\ HasKey(self.status, "currentMileage")
    /\ KeyMissing(self.status, <<"currentMileage", "mileage">>)
    /\ Returned(None)

\* C6: with status and properties both present (possibly empty), the
\* aggregate properties never raise because a key is missing; the only
\* failure left to them is an unrecognised state code.
C6_AggregatesNeverRaiseOnMissingKey ==
    (IsDict(self.status) /\ IsDict(self.properties) /\ call.name \in Aggregates) =>
        (result.k = "return" \/ result = Raise(EnumError))

----------------------------------------------------------------------------
(* Enumerated state codes *)

IsCode(v) == v.t = "str" /\ ~IsStrTimeStr(v)

\* some value of the dict is a code outside the enumeration
HasCodeOutside(d, keys, members) ==
    IsDict(d) /\ \E key \in keys \cap DOMAIN d.d : IsCode(d.d[key]) /\ d.d[key].s \notin members

\* no lookup in the service entry fails on a missing key
CbsEntryHasKeys(entry) ==
    /\ HasKey(entry, "status") /\ HasKey(entry, "type")
    /\ HasKey(entry, "distance") => (Present(entry, <<"distance", "value">>) /\ Present(entry, <<"distance", "units">>))

CbsEntryCodeOutside(entry) ==
    HasKey(entry, "status") /\ IsCode(entry.d["status"]) /\ entry.d["status"].s \notin ConditionBasedServiceStatus

\* the accessor is handed a raw code outside its enumeration; normalise is
\* applied to a door lock code first, reachable says which service entries count
MapsCodeOutside(name, normalise(_), reachable(_, _)) ==
    LET status == self.status
        properties == self.properties
    IN
    CASE name = "door_lock_state" ->
            /\ Present(status, <<"doorsGeneralState">>)
            /\ IsCode(status.d["doorsGeneralState"])
            /\ normalise(status.d["doorsGeneralState"]).s \notin LockState
      [] name = "charging_status" ->
            /\ Present(properties, <<"chargingState", "state">>)
            /\ HasCodeOutside(properties.d["chargingState"], {"state"}, ChargingState)
      [] name = "lids" ->
            /\ Present(properties, <<"doorsAndWindows">>)
            /\ LET dw == properties.d["doorsAndWindows"] IN
               \/ HasCodeOutside(dw, {"hood", "trunk"}, LidState)
               \/ HasKey(dw, "doors") /\ HasCodeOutside(dw.d["doors"], DOMAIN dw.d["doors"].d, LidState)
      [] name = "windows" ->
            /\ Present(properties, <<"doorsAndWindows", "windows">>)
            /\ LET w == properties.d["doorsAndWindows"].d["windows"] IN
               IsDict(w) /\ HasCodeOutside(w, DOMAIN w.d, LidState)
      [] name = "condition_based_services" ->
            /\ Present(properties, <<"serviceRequired">>)
            /\ LET sr == properties.d["serviceRequired"] IN
               /\ sr.t = "list"
               /\ \E i \in 1..Len(sr.items) : CbsEntryCodeOutside(sr.items[i]) /\ reachable(sr.items, i)
      [] OTHER -> FALSE

MappingAccessors == {"door_lock_state", "charging_status", "lids", "windows", "condition_based_services"}

\* C7 as stated: any raw state code outside the closed enumeration makes the
\* accessor that maps it fail with the construction error.
C7_AnyCodeOutsideRaises ==
    (call.name \in MappingAccessors
        /\ MapsCodeOutside(call.name, LAMBDA code : code, LAMBDA items, i : TRUE)) =>
        result = Raise(EnumError)

\* C7, amended: with the raw data available, a raw state code that is outside
\* the closed enumeration (a door lock code after upper-casing) and that the
\* accessor gets to (no earlier service entry lacks a key) makes the accessor
\* fail with the construction error, which passes the wrapper unchanged.
C7_ReachedCodeOutsideRaises ==
    (call.name \in MappingAccessors /\ FuncIsCalled
        /\ MapsCodeOutside(call.name, LAMBDA code : Upper(code).val,
                           LAMBDA items, i : \A j \in 1..(i - 1) : CbsEntryHasKeys(items[j]))) =>
        result = Raise(EnumError)

\* a lower-case door lock code that is unknown also after upper-casing
C7_Witness ==
    /\ call.name = "door_lock_state"
    /\ Present(self.status, <<"doorsGeneralState">>)
    /\ self.status.d["doorsGeneralState"] = PyStr("bogus")
    /\ result = Raise(EnumError)

----------------------------------------------------------------------------
(* Timestamps *)

\* a non-empty string that none of the formats accepts
Unparseable(v) ==
    /\ IsStrTimeStr(v) /\ v.toks # <<>>
    /\ \A i \in DOMAIN date_formats : strptime(v, date_formats[i], py37).k = "raise"

\* C8: when one or both lastUpdatedAt values are unparseable, reading
\* timestamp does not raise and yields an absent timestamp.
C8_UnparseableTimestampIsAbsent ==
    (/\ call.name = "timestamp"
     /\ Present(self.properties, <<"lastUpdatedAt">>)
     /\ Present(self.status, <<"lastUpdatedAt">>)
     /\ \/ Unparseable(self.properties.d["lastUpdatedAt"])
        \/ Unparseable(self.status.d["lastUpdatedAt"])) =>
        Returned(None)

----------------------------------------------------------------------------
(* parse_datetime on its own *)

ParseReturned == call.name = "parse_datetime" /\ result # Pending

\* the formats that accept the argument
MatchingFormats ==
    {i \in DOMAIN date_formats : strptime(call.arg, date_formats[i], py37).k = "return"}

FirstMatchingFormat == CHOOSE i \in MatchingFormats : \A j \in MatchingFormats : i <= j

\* C9: parse_datetime returns what the first of the four formats, in their
\* fixed order, that accepts the string yields; for None, the empty string
\* and a string no format accepts it returns None; no exception escapes.
C9_FirstMatchingFormatOrNone ==
    ParseReturned =>
        /\ result.k = "return"
        /\ IF ~Truthy(call.arg) \/ MatchingFormats = {}
           THEN result.val = None
           ELSE LET expected == strptime(call.arg, date_formats[FirstMatchingFormat], py37).val IN
                /\ result.val.t = "datetime"
                /\ result.val.instant = expected.instant
                /\ result.val.frac = expected.frac
                /\ py37 => result.val.tz = expected.tz

\* a string that more than one format accepts
C9_Witness ==
    /\ ParseReturned
    /\ Cardinality(MatchingFormats) > 1
    /\ result.k = "return" /\ result.val # None

\* C10: every result of parse_datetime other than None is timezone-aware,
\* also for the two formats ending in the literal 'Z'.
C10_ResultIsTimezoneAware ==
    (ParseReturned /\ result.k = "return" /\ result.val # None) =>
        (result.val.t = "datetime" /\ result.val.tz # "naive")

\* a string accepted by a literal-'Z' format only
C10_Witness ==
    /\ ParseReturned
    /\ MatchingFormats # {} /\ MatchingFormats \subseteq {3, 4}
    /\ result.k = "return" /\ result.val # None

----------------------------------------------------------------------------
(* Lids and windows *)

\* the objects expected for the entries of d named in allowed, in payload
\* order, leaving out those whose raw state is INVALID
ExpectedLids(cls, d, allowed) ==
    LET names == SelectSeq(d.keys, LAMBDA name : name \in allowed /\ d.d[name] # PyStr("INVALID"))
    IN [i \in 1..Len(names) |->
           [t |-> cls, name |-> names[i], state |-> PyEnum("LidState", d.d[names[i]].s)]]

DoorsAndWindows == self.properties.d["doorsAndWindows"]

\* doorsAndWindows is there with a doors mapping, and every code is known
LidsAvailable ==
    /\ FuncIsCalled
    /\ Present(self.properties, <<"doorsAndWindows", "doors">>)
    /\ IsDict(DoorsAndWindows.d["doors"])
    /\ ~MapsCodeOutside("lids", LAMBDA code : code, LAMBDA items, i : TRUE)

WindowsAvailable ==
    /\ FuncIsCalled
    /\ Present(self.properties, <<"doorsAndWindows", "windows">>)
    /\ IsDict(DoorsAndWindows.d["windows"])
    /\ ~MapsCodeOutside("windows", LAMBDA code : code, LAMBDA items, i : TRUE)

\* C11: lids is the hood/trunk entries of doorsAndWindows followed by all
\* entries of its doors mapping, exactly those whose raw state is not
\* INVALID; no entry with raw state INVALID is in lids.
C11_LidsAreValidHoodTrunkAndDoors ==
    (call.name = "lids" /\ LidsAvailable) =>
        /\ Returned(PyList(ExpectedLids("Lid", DoorsAndWindows, {"hood", "trunk"})
                           \o ExpectedLids("Lid", DoorsAndWindows.d["doors"],
                                           DOMAIN DoorsAndWindows.d["doors"].d)))
        /\ \A i \in 1..Len(result.val.items) :
              result.val.items[i].state # PyEnum("LidState", "INVALID")

\* a door reported INVALID beside entries that are kept
C11_Witness ==
    /\ call.name = "lids" /\ LidsAvailable
    /\ \E name \in DOMAIN DoorsAndWindows.d["doors"].d :
          DoorsAndWindows.d["doors"].d[name] = PyStr("INVALID")
    /\ result.k = "return" /\ result.val.t = "list" /\ Len(result.val.items) >= 2

\* C12: windows is exactly the entries of doorsAndWindows.windows whose raw
\* state is not INVALID, without any door, hood or trunk entry, and it is
\* absent (None) when doorsAndWindows has no windows, as lids is when
\* doorsAndWindows has no doors.
C12_WindowsLikeLids ==
    /\ (call.name = "windows" /\ WindowsAvailable) =>
          Returned(PyList(ExpectedLids("Window", DoorsAndWindows.d["windows"],
                                       DOMAIN DoorsAndWindows.d["windows"].d)))
    /\ (call.name = "windows" /\ FuncIsCalled /\ HasKey(self.properties, "doorsAndWindows")
          /\ IsDict(DoorsAndWindows) /\ ~HasKey(DoorsAndWindows, "windows")) =>
          Returned(None)
    /\ (call.name = "lids" /\ FuncIsCalled /\ HasKey(self.properties, "doorsAndWindows")
          /\ IsDict(DoorsAndWindows) /\ ~HasKey(DoorsAndWindows, "doors")
          /\ ~MapsCodeOutside("lids", LAMBDA code : code, LAMBDA items, i : TRUE)) =>
          Returned(None)

----------------------------------------------------------------------------
(* Condition based services and check control messages *)

ServiceRequired == self.properties.d["serviceRequired"]

\* serviceRequired is a list of complete entries with known status codes
ServicesAvailable ==
    /\ FuncIsCalled
    /\ Present(self.properties, <<"serviceRequired">>)
    /\ ServiceRequired.t = "list"
    /\ \A i \in 1..Len(ServiceRequired.items) :
          /\ CbsEntryHasKeys(ServiceRequired.items[i])
          /\ IsCode(ServiceRequired.items[i].d["status"])
          /\ ~CbsEntryCodeOutside(ServiceRequired.items[i])

\* C14: are_all_cbs_ok is true iff every entry of properties.serviceRequired
\* has status OK; true for the empty list, false with an OVERDUE or PENDING
\* entry.
C14_AllCbsOkIffEveryStatusOk ==
    (call.name = "are_all_cbs_ok" /\ ServicesAvailable) =>
        Returned(PyBool(\A i \in 1..Len(ServiceRequired.items) :
                            ServiceRequired.items[i].d["status"] = PyStr("OK")))

\* an OK entry followed by one that is not OK
C14_Witness ==
    /\ call.name = "are_all_cbs_ok" /\ ServicesAvailable
    /\ Len(ServiceRequired.items) = 2
    /\ ServiceRequired.items[1].d["status"] = PyStr("OK")
    /\ ServiceRequired.items[2].d["status"] \in {PyStr("OVERDUE"), PyStr("PENDING")}
    /\ Returned(PyBool(FALSE))

\* the raw messages: status.checkControlMessages, or the empty list
RawMessages ==
    IF HasKey(self.status, "checkControlMessages")
    THEN self.status.d["checkControlMessages"] ELSE PyList(<<>>)

MessagesAvailable ==
    /\ FuncIsCalled
    /\ IsDict(self.status)
    /\ RawMessages.t = "list"
    /\ \A i \in 1..Len(RawMessages.items) : HasKey(RawMessages.items[i], "state")

NotOkMessages == SelectSeq(RawMessages.items, LAMBDA m : m.d["state"] # PyStr("OK"))

\* C15: check_control_messages wraps exactly the raw messages whose state is
\* not "OK", in order (the empty list without checkControlMessages), and
\* has_check_control_messages is true exactly when there is such a message.
C15_MessagesAreTheNotOkOnes ==
    /\ (call.name = "check_control_messages" /\ MessagesAvailable) =>
          Returned(PyList([i \in 1..Len(NotOkMessages) |-> CheckControlMessage(NotOkMessages[i])]))
    /\ (call.name = "has_check_control_messages" /\ MessagesAvailable) =>
          Returned(PyBool(NotOkMessages # <<>>))

\* one OK and one other message give a list of length 1
C15_Witness ==
    /\ call.name = "check_control_messages" /\ MessagesAvailable
    /\ Len(RawMessages.items) = 2
    /\ \E i \in 1..2 : RawMessages.items[i].d["state"] = PyStr("OK")
    /\ \E i \in 1..2 : RawMessages.items[i].d["state"] = PyStr("CRITICAL")
    /\ result.k = "return" /\ Len(result.val.items) = 1

\* the lids of the payload (hood, trunk, doors) that are not INVALID
AllLids ==
    ExpectedLids("Lid", DoorsAndWindows, {"hood", "trunk"})
    \o ExpectedLids("Lid", DoorsAndWindows.d["doors"], DOMAIN DoorsAndWindows.d["doors"].d)

NotClosedLids == SelectSeq(AllLids, LAMBDA lid : lid.state.member # "CLOSED")

\* C16: open_lids is the sub-list of lids whose state is not CLOSED (OPEN,
\* OPEN_TILT and INTERMEDIATE alike), and all_lids_closed is true exactly
\* when that sub-list is empty.
C16_OpenLidsAreTheNotClosedOnes ==
    /\ (call.name = "open_lids" /\ LidsAvailable) => Returned(PyList(NotClosedLids))
    /\ (call.name = "all_lids_closed" /\ LidsAvailable) => Returned(PyBool(NotClosedLids = <<>>))

\* a lid that is neither OPEN nor CLOSED is reported open
C16_Witness ==
    /\ call.name = "open_lids" /\ LidsAvailable
    /\ result.k = "return"
    /\ \E i \in 1..Len(result.val.items) :
          result.val.items[i].state.member \in {"OPEN_TILT", "INTERMEDIATE"}

----------------------------------------------------------------------------
(* Lifecycle of the entities of a vehicle *)

\* the step is an update_state call
IsPoll == vehicle'.polls = vehicle.polls + 1

----------------------------------------------------------------------------
(* Attribute lists of a vehicle *)

DriveTrainAvailable == Present(vehicle.data, <<ATTR_ATTRIBUTES, "driveTrain">>)

\* the member the raw drive train code stands for
DriveTrainMember ==
    LET value == vehicle.data.d[ATTR_ATTRIBUTES].d["driveTrain"] IN
    IF IsCode(value) /\ value.s \in DriveTrainType THEN value.s ELSE "UNKNOWN"

LscAvailable == Present(vehicle.data, <<ATTR_STATE, "isLscSupported">>)
LscSupported == Truthy(vehicle.data.d[ATTR_STATE].d["isLscSupported"])

ResultNames == {result.val.items[i].s : i \in 1..Len(result.val.items)}
NamesOf(names) == {names[i] : i \in 1..Len(names)}

\* C17: drive_train_attributes begins with remaining_range_total, mileage,
\* holds the fourteen charging attributes iff the drive train is in
\* HV_BATTERY_DRIVE_TRAINS and the three fuel attributes iff it is in
\* COMBUSTION_ENGINE_DRIVE_TRAINS; available_attributes is exactly
\* [gps_position, vin] when isLscSupported is false and otherwise holds
\* every entry of drive_train_attributes as well.
C17_AttributeListsFollowDriveTrain ==
    /\ (call.name = "drive_train_attributes" /\ DriveTrainAvailable) =>
          /\ result.k = "return" /\ result.val.t = "list"
          /\ result.val.items[1] = PyStr("remaining_range_total")
          /\ result.val.items[2] = PyStr("mileage")
          /\ Cardinality(NamesOf(ElectricAttributes)) = 14
          /\ IF DriveTrainMember \in HV_BATTERY_DRIVE_TRAINS
             THEN NamesOf(ElectricAttributes) \subseteq ResultNames
             ELSE NamesOf(ElectricAttributes) \cap ResultNames = {}
          /\ IF DriveTrainMember \in COMBUSTION_ENGINE_DRIVE_TRAINS
             THEN NamesOf(CombustionAttributes) \subseteq ResultNames
             ELSE NamesOf(CombustionAttributes) \cap ResultNames = {}
    /\ (call.name = "available_attributes" /\ LscAvailable /\ ~LscSupported) =>
          Returned(StrList(<<"gps_position", "vin">>))
    /\ (call.name = "available_attributes" /\ LscAvailable /\ LscSupported /\ DriveTrainAvailable) =>
          /\ result.k = "return" /\ result.val.t = "list"
          /\ result.val.items[1] = PyStr("gps_position")
          /\ result.val.items[2] = PyStr("vin")
          /\ {"remaining_range_total", "mileage"} \subseteq ResultNames
          /\ DriveTrainMember \in HV_BATTERY_DRIVE_TRAINS =>
                NamesOf(ElectricAttributes) \subseteq ResultNames
          /\ DriveTrainMember \in COMBUSTION_ENGINE_DRIVE_TRAINS =>
                NamesOf(CombustionAttributes) \subseteq ResultNames

\* the attributes of a plug-in hybrid and of a purely electric vehicle
C17_Witness ==
    \/ /\ call.name = "available_attributes" /\ LscAvailable /\ LscSupported /\ DriveTrainAvailable
       /\ DriveTrainMember = "PLUGIN_HYBRID"
       /\ result.k = "return" /\ Len(result.val.items) > 2 + 14 + 3
    \/ /\ call.name = "drive_train_attributes" /\ DriveTrainAvailable
       /\ DriveTrainMember = "ELECTRIC"
       /\ result.k = "return" /\ Len(result.val.items) = 2 + 14

====
